---- MODULE Spec2Model ----
(***************************************************************************)
(* Model of the quantum security scorer of the report card                 *)
(* (src/src/utils/quantum-security-scorer.ts, the current version of the   *)
(* file, lines 239-460) over the EthereumAddressData record of             *)
(* src/src/interfaces/EthereumSecurity.ts.                                 *)
(*                                                                         *)
(* Numbers.  balanceEth is a 64-bit float that the scorer only compares    *)
(* with the integers 0, 1, 10, 100, 1000, so a balance is kept as its      *)
(* whole part and the numerator of its fractional part over FracDen; the   *)
(* comparisons are exact on that representation.  Every deduction is an    *)
(* integer, so the running score is an integer and Math.round returns it   *)
(* unchanged.  The 0-1 risk factors of the analysis (0.2, 0.4, ...) are    *)
(* kept in tenths.                                                         *)
(*                                                                         *)
(* HandlerSpec models the GET report handler                               *)
(* (src/src/pages/api/reports/[address].ts, lines 126-265) with the ENS    *)
(* helpers of src/src/utils/ens.ts and the Etherscan client                *)
(* (src/unnamed/part_002); every outcome of an external call is a          *)
(* nondeterministic choice.                                                *)
(***************************************************************************)
EXTENDS Integers, Sequences, FiniteSets, TLC

\* ------------------------------------------------------------------ bounds
\* daysSinceFirstTransaction ranges over 0..MaxDays (and absent).
MaxDays == 800
\* Denominator of the fractional part of a balance: fractions 0/FracDen ..
\* (FracDen-1)/FracDen.
FracDen == 2
\* Whole parts of the balances tried: each breakpoint of the scorer, the
\* 10000 breakpoint of the specification and the 10^9 of its clamp example.
BalanceWholes == {0, 1, 10, 50, 100, 1000, 10000, 1000000000}
\* Days tried for the second record of a relational property: both sides of
\* every duration breakpoint.
DayProbes == {0, 1, 30, 31, 90, 91, 180, 181, 365, 366, 400, 730, 731}

\* ------------------------------------------------------------- data model
\* An optional number field that is absent (undefined or null).
undefined == -1

Balances == [whole : BalanceWholes, frac : 0 .. (FracDen - 1)]

EthereumAddressData ==
  [balanceEth : Balances,
   hasOutgoingTransactions : BOOLEAN,
   daysSinceFirstTransaction : {undefined} \cup (0 .. MaxDays),
   isSmartContract : BOOLEAN]

\* balanceEth > k, for an integer k.
BalanceGt(b, k) == b.whole > k \/ (b.whole = k /\ b.frac > 0)
\* balanceEth === 0
BalanceIsZero(b) == b.whole = 0 /\ b.frac = 0
\* balance1 <= balance2
BalanceLeq(b1, b2) ==
  b1.whole < b2.whole \/ (b1.whole = b2.whole /\ b1.frac <= b2.frac)

\* JavaScript truthiness of the optional number: absent and 0 are falsy.
Truthy(d) == d # undefined /\ d # 0

MathMax(x, y) == IF x >= y THEN x ELSE y

Rec(text, n) == [text |-> text, n |-> n]

\* ---------------------------------------------------------------- scorer
\* Mutant: the A+ threshold tested with > instead of >=.
getGrade_StrictTop(score) ==
  IF score > 95 THEN "A+"
  ELSE IF score >= 85 THEN "A"
  ELSE IF score >= 75 THEN "B"
  ELSE IF score >= 65 THEN "C"
  ELSE IF score >= 50 THEN "D"
  ELSE "F"

getGrade(score) ==
  IF score >= 95 THEN "A+"
  ELSE IF score >= 85 THEN "A"
  ELSE IF score >= 75 THEN "B"
  ELSE IF score >= 65 THEN "C"
  ELSE IF score >= 50 THEN "D"
  ELSE "F"

\* Mutant: the High threshold tested with > instead of >=.
getRiskLevel_StrictHigh(score) ==
  IF score >= 90 THEN "Very Low"
  ELSE IF score >= 75 THEN "Low"
  ELSE IF score >= 60 THEN "Medium"
  ELSE IF score > 40 THEN "High"
  ELSE "Very High"

getRiskLevel(score) ==
  IF score >= 90 THEN "Very Low"
  ELSE IF score >= 75 THEN "Low"
  ELSE IF score >= 60 THEN "Medium"
  ELSE IF score >= 40 THEN "High"
  ELSE "Very High"

\* Mutant: the ternary of the exposure penalty inverted.
publicKeyExposedPenalty_Inverted(addressData) ==
  IF addressData.hasOutgoingTransactions THEN 0 ELSE 40

publicKeyExposedPenalty(addressData) ==
  IF addressData.hasOutgoingTransactions THEN 40 ELSE 0

\* Mutant: the duration of the exposure left out of the score.
exposureDurationPenalty_Ignored(addressData) == 0

\* Mutant: the one-year band tested with > 400 instead of > 365.
exposureDurationPenalty_LateYear(addressData) ==
  LET days == addressData.daysSinceFirstTransaction IN
  IF addressData.hasOutgoingTransactions /\ Truthy(days)
  THEN IF days > 365 * 2 THEN 20
       ELSE IF days > 400 THEN 15
       ELSE IF days > 180 THEN 10
       ELSE IF days > 30 THEN 5
       ELSE 0
  ELSE 0

\* The additional deduction for the duration of the exposure.
exposureDurationPenalty(addressData) ==
  LET days == addressData.daysSinceFirstTransaction IN
  IF addressData.hasOutgoingTransactions /\ Truthy(days)
  THEN IF days > 365 * 2 THEN 20
       ELSE IF days > 365 THEN 15
       ELSE IF days > 180 THEN 10
       ELSE IF days > 30 THEN 5
       ELSE 0
  ELSE 0

\* The recommendations of factor 1, in the order they are pushed.
exposureRecommendations(addressData) ==
  LET days == addressData.daysSinceFirstTransaction IN
  IF addressData.hasOutgoingTransactions
  THEN <<Rec("public key exposed", 0)>> \o
       (IF Truthy(days)
        THEN IF days > 365 * 2
             THEN <<Rec("exposed for N years, significantly increasing risk",
                        days \div 365)>>
             ELSE IF days > 365
             THEN <<Rec("exposed for over a year (N years)", days \div 365)>>
             ELSE IF days > 180
             THEN <<Rec("exposed for N months, moderate risk", days \div 30)>>
             ELSE IF days > 30
             THEN <<Rec("exposed for N months", days \div 30)>>
             ELSE <<>>
        ELSE <<>>)
  ELSE <<Rec("no outgoing transactions, public key secure", 0)>>

\* Mutant: the last band tested with >= 0, so an empty address is charged.
balanceRiskFactor_ZeroCharged(addressData) ==
  LET b == addressData.balanceEth IN
  IF BalanceGt(b, 1000) THEN 25
  ELSE IF BalanceGt(b, 100) THEN 20
  ELSE IF BalanceGt(b, 10) THEN 15
  ELSE IF BalanceGt(b, 1) THEN 10
  ELSE 5

\* Mutant: the top band mistyped as 15, below the band under it.
balanceRiskFactor_TopBandLow(addressData) ==
  LET b == addressData.balanceEth IN
  IF BalanceGt(b, 1000) THEN 15
  ELSE IF BalanceGt(b, 100) THEN 20
  ELSE IF BalanceGt(b, 10) THEN 15
  ELSE IF BalanceGt(b, 1) THEN 10
  ELSE IF BalanceGt(b, 0) THEN 5
  ELSE 0

\* Mutant: the else-if chain written as independent ifs that accumulate.
balanceRiskFactor_Accumulating(addressData) ==
  LET b == addressData.balanceEth IN
  (IF BalanceGt(b, 1000) THEN 25 ELSE 0)
  + (IF BalanceGt(b, 100) THEN 20 ELSE 0)
  + (IF BalanceGt(b, 10) THEN 15 ELSE 0)
  + (IF BalanceGt(b, 1) THEN 10 ELSE 0)
  + (IF BalanceGt(b, 0) THEN 5 ELSE 0)

\* The deduction of factor 2 (the scorer's local balanceRiskFactor).
balanceRiskFactor(addressData) ==
  LET b == addressData.balanceEth IN
  IF BalanceGt(b, 1000) THEN 25
  ELSE IF BalanceGt(b, 100) THEN 20
  ELSE IF BalanceGt(b, 10) THEN 15
  ELSE IF BalanceGt(b, 1) THEN 10
  ELSE IF BalanceGt(b, 0) THEN 5
  ELSE 0

\* The recommendations of factor 2 and the closing positive ones.
balanceRecommendations(addressData) ==
  LET b == addressData.balanceEth IN
  (IF BalanceGt(b, 1000) THEN <<Rec("very high balance", 0)>>
   ELSE IF BalanceGt(b, 100) THEN <<Rec("high balance", 0)>>
   ELSE IF BalanceGt(b, 10) THEN <<Rec("moderate balance", 0)>>
   ELSE <<>>)
  \o (IF ~addressData.hasOutgoingTransactions /\ BalanceGt(b, 0)
      THEN <<Rec("use only for receiving funds", 0)>> ELSE <<>>)
  \o (IF BalanceIsZero(b)
      THEN <<Rec("empty address has minimal risk", 0)>> ELSE <<>>)

\* Mutant: the deductions added to the score instead of subtracted.
calculateQuantumSecurityScore_Adds(addressData) ==
  LET score == MathMax(0, 100 + publicKeyExposedPenalty(addressData)
                            + exposureDurationPenalty(addressData)
                            + balanceRiskFactor(addressData))
  IN [score |-> score,
      grade |-> getGrade(score),
      riskLevel |-> getRiskLevel(score),
      recommendations |-> exposureRecommendations(addressData)
                          \o balanceRecommendations(addressData)]

calculateQuantumSecurityScore(addressData) ==
  LET score == MathMax(0, 100 - publicKeyExposedPenalty(addressData)
                            - exposureDurationPenalty(addressData)
                            - balanceRiskFactor(addressData))
  IN [score |-> score,
      grade |-> getGrade(score),
      riskLevel |-> getRiskLevel(score),
      recommendations |-> exposureRecommendations(addressData)
                          \o balanceRecommendations(addressData)]

\* Mutant: the three-month band tested with >= instead of >.
exposureDurationRisk_InclusiveQuarter(addressData) ==
  LET days == addressData.daysSinceFirstTransaction IN
  IF Truthy(days)
  THEN IF days > 365 * 2 THEN 10
       ELSE IF days > 365 THEN 8
       ELSE IF days > 180 THEN 6
       ELSE IF days >= 90 THEN 4
       ELSE IF days > 30 THEN 2
       ELSE 0
  ELSE 0

\* exposureDurationRisk of the analysis, in tenths.
exposureDurationRisk(addressData) ==
  LET days == addressData.daysSinceFirstTransaction IN
  IF Truthy(days)
  THEN IF days > 365 * 2 THEN 10
       ELSE IF days > 365 THEN 8
       ELSE IF days > 180 THEN 6
       ELSE IF days > 90 THEN 4
       ELSE IF days > 30 THEN 2
       ELSE 0
  ELSE 0

\* Mutant: the bands of the analysis tested with >= instead of >.
analysisBalanceRiskFactor_Inclusive(addressData) ==
  LET b == addressData.balanceEth IN
  IF b.whole >= 1000 THEN 10
  ELSE IF b.whole >= 100 THEN 8
  ELSE IF b.whole >= 10 THEN 6
  ELSE IF b.whole >= 1 THEN 4
  ELSE IF BalanceGt(b, 0) THEN 2
  ELSE 0

\* balanceRiskFactor of the analysis, in tenths.
analysisBalanceRiskFactor(addressData) ==
  LET b == addressData.balanceEth IN
  IF BalanceGt(b, 1000) THEN 10
  ELSE IF BalanceGt(b, 100) THEN 8
  ELSE IF BalanceGt(b, 10) THEN 6
  ELSE IF BalanceGt(b, 1) THEN 4
  ELSE IF BalanceGt(b, 0) THEN 2
  ELSE 0

generateSecurityAnalysis(addressData) ==
  [addressData |-> addressData,
   securityScore |-> calculateQuantumSecurityScore(addressData),
   analysisDetails |->
     [publicKeyExposed |-> addressData.hasOutgoingTransactions,
      balanceRiskFactor |-> analysisBalanceRiskFactor(addressData),
      exposureDurationRisk |-> exposureDurationRisk(addressData),
      daysSinceExposure |-> addressData.daysSinceFirstTransaction]]

\* One "<n> <word>" piece of a formatted duration.
Part(n, word) == [n |-> n, word |-> word]

\* The string returned, as its pieces in order (joined by ", ").
formatExposureDuration(days) ==
  IF days < 1 THEN <<Part(0, "less than a day")>>
  ELSE IF days = 1 THEN <<Part(1, "day")>>
  ELSE IF days < 30 THEN <<Part(days, "days")>>
  ELSE IF days < 365
  THEN LET months == days \div 30 IN
       IF months = 1 THEN <<Part(1, "month")>> ELSE <<Part(months, "months")>>
  ELSE LET years == days \div 365
           remainingMonths == (days % 365) \div 30
       IN IF years = 1
          THEN IF remainingMonths > 0
               THEN <<Part(1, "year"), Part(remainingMonths, "months")>>
               ELSE <<Part(1, "year")>>
          ELSE IF remainingMonths > 0
               THEN <<Part(years, "years"), Part(remainingMonths, "months")>>
               ELSE <<Part(years, "years")>>

\* ------------------------------------------------- report handler: inputs
\* The address parameter is a string of at most MaxLen tokens:
\*   "ADDR"  0x followed by 40 hexadecimal characters,
\*   "ENS"   a label of [a-zA-Z0-9-] characters followed by .eth,
\*   "ws"    white space,
\*   "x"     any character that is none of these and not allowed in a label.
\* The hexadecimal characters of "ADDR" are label characters, so "ADDR"
\* followed by "ENS" matches the ENS pattern but starts with 0x.
MaxLen == 3
Tokens == {"ADDR", "ENS", "ws", "x"}
Strings == UNION {[1 .. n -> Tokens] : n \in 0 .. MaxLen}

\* The history of an address holds at most MaxTxs transactions.
MaxTxs == 2
\* Date.now() / 1000 of the request, in whole seconds: the timestamps are
\* integers, so the fraction of a second never changes a floor of days.
Now == 20000 * 86400 + 4321
\* Block timestamps of the transactions tried: this second, one second less
\* than a day ago, a day ago, and more than 400 days ago.  A block timestamp
\* is positive and not later than the request that reads it.
TxTimes == {Now, Now - 86399, Now - 86400, Now - (400 * 86400 + 7)}

Transactions == [outgoing : BOOLEAN, timeStamp : TxTimes]

\* What is on chain for the resolved address: its normal transactions,
\* oldest first, whether it holds code, and its balance as the number of
\* (10^18 / FracDen) wei.
Histories ==
  {h \in UNION {[1 .. n -> Transactions] : n \in 0 .. MaxTxs} :
     \A i \in 1 .. Len(h) - 1 : h[i].timeStamp < h[i + 1].timeStamp}
ChainStates == [history : Histories, code : BOOLEAN, balance : {0, 1, 3}]

\* The outcomes of one request to Etherscan.
\*   "ok"             HTTP 200 with status "1" (or a proxy result)
\*   "http429"        HTTP 429
\*   "httpError"      any other non-2xx status
\*   "notok"          status "0", message "NOTOK"
\*   "status0"        status "0", any other message
\*   "badJson"        a body that response.json() or the reader rejects
\*   "failedToFetch"  fetch rejects with a TypeError "Failed to fetch"
\*   "fetchError"     fetch rejects with any other error or message
\*   "none"           no request was made
EtherscanOutcomes ==
  {"ok", "http429", "httpError", "notok", "status0", "badJson",
   "failedToFetch", "fetchError"}
\* The outcomes of one ENS call: a name or address, null, or a thrown error.
EnsOutcomes == {"found", "null", "error"}

\* String.prototype.trim on the token strings.
RECURSIVE TrimStart(_)
TrimStart(str) ==
  IF str # <<>> /\ Head(str) = "ws" THEN TrimStart(Tail(str)) ELSE str
RECURSIVE TrimEnd(_)
TrimEnd(str) ==
  IF str # <<>> /\ str[Len(str)] = "ws"
  THEN TrimEnd(SubSeq(str, 1, Len(str) - 1)) ELSE str
Trim(str) == TrimEnd(TrimStart(str))

\* ----------------------------------------------------------------- ens.ts
\* /^[a-zA-Z0-9-]+\.eth$/ : label characters, then one .eth at the end.
ensPattern(str) ==
  /\ str # <<>>
  /\ str[Len(str)] = "ENS"
  /\ \A i \in 1 .. Len(str) - 1 : str[i] = "ADDR"

isENSName(input) ==
  IF input = <<>> THEN FALSE
  ELSE LET trimmed == Trim(input) IN
       IF trimmed = <<>> \/ trimmed[Len(trimmed)] # "ENS"
          \/ trimmed[1] = "ADDR"
       THEN FALSE
       ELSE ensPattern(trimmed)

\* /^0x[a-fA-F0-9]{40}$/
isValidEthereumAddress(address) == address = <<"ADDR">>

validateAddressOrENS(input) ==
  IF input = <<>> THEN [isValid |-> FALSE, type |-> "invalid"]
  ELSE LET cleanInput == Trim(input) IN
       IF isValidEthereumAddress(cleanInput)
       THEN [isValid |-> TRUE, type |-> "address"]
       ELSE IF isENSName(cleanInput)
       THEN [isValid |-> TRUE, type |-> "ens"]
       ELSE [isValid |-> FALSE, type |-> "invalid"]

Resolved(address, ensName, type) ==
  [threw |-> FALSE, address |-> address, ensName |-> ensName, type |-> type]
\* The promise rejected: nothing is returned.
Threw == [threw |-> TRUE, address |-> <<>>, ensName |-> <<>>, type |-> "invalid"]

\* reverseResolveAddress: throws on an address that is not valid as given;
\* the name found, or null (<<>>) when none or when the client throws.
reverseResolveAddress(address, ens) ==
  IF ~isValidEthereumAddress(address) THEN [threw |-> TRUE, name |-> <<>>]
  ELSE [threw |-> FALSE, name |-> IF ens = "found" THEN <<"ENS">> ELSE <<>>]

\* resolveENSName: throws on a name that is no ENS name; the address found,
\* or null (<<>>) when none or when the client throws.
resolveENSName(ensName, ens) ==
  IF ~isENSName(ensName) THEN [threw |-> TRUE, address |-> <<>>]
  ELSE [threw |-> FALSE,
        address |-> IF ens = "found" THEN <<"ADDR">> ELSE <<>>]

\* resolveAddressOrENS, with the outcome of the one ENS call it makes.
\* toLowerCase keeps every token.
resolveAddressOrENS(input, ens) ==
  LET validation == validateAddressOrENS(input) IN
  IF ~validation.isValid THEN Resolved(<<>>, <<>>, "invalid")
  ELSE IF validation.type = "address"
  THEN LET r == reverseResolveAddress(input, ens) IN
       IF r.threw THEN Threw ELSE Resolved(input, r.name, "address")
  ELSE LET r == resolveENSName(input, ens) IN
       IF r.threw THEN Threw ELSE Resolved(r.address, input, "ens")

\* ----------------------------------------------------------- etherscan.ts
\* The class of the message of the error fetchEtherscanData throws for an
\* outcome, "" when it returns.
fetchEtherscanDataError(outcome) ==
  CASE outcome = "ok" -> ""
    [] outcome = "http429" -> "Rate limit exceeded"
    [] outcome = "httpError" -> "HTTP"
    [] outcome = "notok" -> "Invalid request or address not found"
    [] outcome = "status0" -> "other"
    [] outcome = "badJson" -> "other"
    [] outcome = "failedToFetch" -> "Network error"
    [] outcome = "fetchError" -> "other"
    [] outcome = "noApiKey" -> "Please configure"

\* hasAnyTransactions on a successful eth_getTransactionCount: the count is
\* the number of transactions the address has sent.
hasAnyTransactions(chain) ==
  Cardinality({i \in 1 .. Len(chain.history) : chain.history[i].outgoing}) > 0

\* isSmartContract: any error is caught and answered false.
isSmartContract(chain, outcome) ==
  IF outcome = "ok" THEN chain.code ELSE FALSE

\* weiToEth, on a balance counted in (10^18 / FracDen) wei.
weiToEth(wei) == [whole |-> wei \div FracDen, frac |-> wei % FracDen]

\* getFirstTransactionTimestamp: [threw, message, value].  It calls fetch
\* itself: a rejected fetch or a bad body propagates unchanged, a non-2xx
\* answer and a status other than "1" give null, and a list gives the
\* timeStamp of its first row, the oldest transaction of either direction.
getFirstTransactionTimestamp(chain, outcome) ==
  IF outcome \in {"failedToFetch", "fetchError", "badJson"}
  THEN [threw |-> TRUE,
        message |-> IF outcome = "failedToFetch" THEN "Failed to fetch"
                    ELSE "other",
        value |-> undefined]
  ELSE IF outcome \in {"http429", "httpError", "notok", "status0"}
  THEN [threw |-> FALSE, message |-> "", value |-> undefined]
  ELSE IF Len(chain.history) > 0
  THEN [threw |-> FALSE, message |-> "",
        value |-> chain.history[1].timeStamp]
  ELSE [threw |-> FALSE, message |-> "", value |-> undefined]

\* ------------------------------------------------ pages/api/reports: GET
\* The status code the catch block chooses for an error message.
statusCode(message) ==
  IF message = "Rate limit exceeded" THEN 429
  ELSE IF message = "Invalid request or address not found" THEN 404
  ELSE IF message = "Network error" THEN 503
  ELSE IF message = "Invalid Ethereum address format" THEN 400
  ELSE 500

\* Mutant: the days rounded up instead of down.
daysSince_Ceil(hasOutgoingTransactions, firstTransactionTimestamp, now) ==
  IF hasOutgoingTransactions /\ Truthy(firstTransactionTimestamp)
  THEN (now - firstTransactionTimestamp + 24 * 60 * 60 - 1)
         \div (24 * 60 * 60)
  ELSE undefined

\* daysSinceFirstTransaction as the handler computes it, null otherwise.
daysSince(hasOutgoingTransactions, firstTransactionTimestamp, now) ==
  IF hasOutgoingTransactions /\ Truthy(firstTransactionTimestamp)
  THEN (now - firstTransactionTimestamp) \div (24 * 60 * 60)
  ELSE undefined

\* A Response: the status and, for a 200, the report it carries.
ErrorResponse(status, error) ==
  [status |-> status, error |-> error,
   address |-> <<>>, ensName |-> <<>>, balance |-> 0,
   balanceEth |-> weiToEth(0), hasOutgoingTransactions |-> FALSE,
   firstTransactionTimestamp |-> undefined,
   daysSinceFirstTransaction |-> undefined, isSmartContract |-> FALSE]

ReportResponse(resolution, balance, hasOutgoing, isContract, timestamp) ==
  [status |-> 200, error |-> "",
   address |-> resolution.address, ensName |-> resolution.ensName,
   balance |-> balance, balanceEth |-> weiToEth(balance),
   hasOutgoingTransactions |-> hasOutgoing,
   firstTransactionTimestamp |-> timestamp,
   daysSinceFirstTransaction |-> daysSince(hasOutgoing, timestamp, Now),
   isSmartContract |-> isContract]

NoResponse == ErrorResponse(0, "")

\* ----------------------------------------------------------- state machine
VARIABLES
  facts,     \* the EthereumAddressData of the call
  pc,        \* "start", "scored", "analysed" or "formatted"
  result,    \* the QuantumSecurityScore returned, once pc = "scored"
  analysis,  \* the EthereumSecurityAnalysis returned, once pc = "analysed"
  formatted, \* the duration text returned, once pc = "formatted"
  address,   \* the address parameter of the GET request
  chain,     \* what is on chain for the address the request resolves to
  apiKey,    \* whether ETHERSCAN_API_KEY is configured
  hpc,       \* where the handler is: "idle", "start", "fetch", "firsttx",
             \* "done" (a Response was returned) or "rejected" (it threw)
  resolution, \* what resolveAddressOrENS returned
  calls,     \* the outcome of each Etherscan request of this GET
  locals,    \* balance, hasOutgoingTransactions, isSmartContract after
             \* the Promise.all
  response   \* the Response returned

scorerVars == <<facts, pc, result, analysis, formatted>>
handlerVars ==
  <<address, chain, apiKey, hpc, resolution, calls, locals, response>>
vars == <<scorerVars, handlerVars>>

NoScore ==
  [score |-> 0, grade |-> "none", riskLevel |-> "none",
   recommendations |-> <<>>]

NoAnalysis ==
  [addressData |-> [balanceEth |-> [whole |-> 0, frac |-> 0],
                    hasOutgoingTransactions |-> FALSE,
                    daysSinceFirstTransaction |-> undefined,
                    isSmartContract |-> FALSE],
   securityScore |-> NoScore,
   analysisDetails |-> [publicKeyExposed |-> FALSE, balanceRiskFactor |-> 0,
                        exposureDurationRisk |-> 0,
                        daysSinceExposure |-> undefined]]

NoCalls ==
  [balance |-> "none", txcount |-> "none", code |-> "none",
   txlist |-> "none"]
NoLocals ==
  [balance |-> 0, hasOutgoingTransactions |-> FALSE,
   isSmartContract |-> FALSE]
NoChain == [history |-> <<>>, code |-> FALSE, balance |-> 0]

\* No request is being handled.
HandlerIdle ==
  /\ address = <<>>
  /\ chain = NoChain
  /\ apiKey = TRUE
  /\ hpc = "idle"
  /\ resolution = Resolved(<<>>, <<>>, "invalid")
  /\ calls = NoCalls
  /\ locals = NoLocals
  /\ response = NoResponse

Init ==
  /\ facts \in EthereumAddressData
  /\ pc = "start"
  /\ result = NoScore
  /\ analysis = NoAnalysis
  /\ formatted = <<>>
  /\ HandlerIdle

\* A caller applies calculateQuantumSecurityScore to the facts.
CalculateScore ==
  /\ pc = "start"
  /\ result' = calculateQuantumSecurityScore(facts)
  /\ pc' = "scored"
  /\ UNCHANGED <<facts, analysis, formatted, handlerVars>>

\* A caller applies generateSecurityAnalysis to the facts.
GenerateAnalysis ==
  /\ pc = "start"
  /\ analysis' = generateSecurityAnalysis(facts)
  /\ pc' = "analysed"
  /\ UNCHANGED <<facts, result, formatted, handlerVars>>

\* A caller formats the exposure duration of the facts for display.
FormatDuration ==
  /\ pc = "start"
  /\ facts.daysSinceFirstTransaction # undefined
  /\ formatted' = formatExposureDuration(facts.daysSinceFirstTransaction)
  /\ pc' = "formatted"
  /\ UNCHANGED <<facts, result, analysis, handlerVars>>

Next == CalculateScore \/ GenerateAnalysis \/ FormatDuration

Spec == Init /\ [][Next]_vars

\* ---------------------------------------------- the GET report handler
\* A request arrives: any address parameter, any chain state behind it.
HandlerInit ==
  /\ facts = NoAnalysis.addressData
  /\ pc = "idle"
  /\ result = NoScore
  /\ analysis = NoAnalysis
  /\ formatted = <<>>
  /\ address \in Strings
  /\ chain \in ChainStates
  /\ apiKey \in BOOLEAN
  /\ hpc = "start"
  /\ resolution = Resolved(<<>>, <<>>, "invalid")
  /\ calls = NoCalls
  /\ locals = NoLocals
  /\ response = NoResponse

\* The parameter check and the awaited resolveAddressOrENS, which is
\* outside the try block: what it throws rejects the handler.
Resolve ==
  /\ hpc = "start"
  /\ \/ /\ address = <<>>
        /\ response' = ErrorResponse(400, "Address parameter is missing.")
        /\ hpc' = "done"
        /\ UNCHANGED resolution
     \/ /\ address # <<>>
        /\ \E ens \in EnsOutcomes :
             LET r == resolveAddressOrENS(address, ens) IN
             IF r.threw
             THEN hpc' = "rejected" /\ UNCHANGED <<response, resolution>>
             ELSE IF r.type = "invalid"
             THEN /\ response' = ErrorResponse(
                                   400, "Invalid address or ENS name format")
                  /\ hpc' = "done"
                  /\ UNCHANGED resolution
             ELSE IF r.address = <<>>
             THEN /\ response' = ErrorResponse(
                                   404, "ENS .eth name could not be resolved")
                  /\ hpc' = "done"
                  /\ UNCHANGED resolution
             ELSE /\ resolution' = r
                  /\ hpc' = "fetch"
                  /\ UNCHANGED response
  /\ UNCHANGED <<scorerVars, address, chain, apiKey, calls, locals>>

\* The Promise.all of getBalance, hasAnyTransactions and isSmartContract,
\* and, for an address without outgoing transactions, the report.  The
\* first of the promises to reject decides the error that is caught.
FetchAll ==
  /\ hpc = "fetch"
  /\ \E ob, ot, oc \in (IF apiKey THEN EtherscanOutcomes ELSE {"noApiKey"}) :
       LET errors == {fetchEtherscanDataError(o) : o \in {ob, ot}} \ {""}
           hasOutgoing == hasAnyTransactions(chain)
           isContract == isSmartContract(chain, oc)
       IN /\ calls' = [balance |-> ob, txcount |-> ot, code |-> oc,
                       txlist |-> "none"]
          /\ IF errors # {}
             THEN /\ \E e \in errors :
                       response' = ErrorResponse(statusCode(e), e)
                  /\ hpc' = "done"
                  /\ UNCHANGED locals
             ELSE /\ locals' = [balance |-> chain.balance,
                                hasOutgoingTransactions |-> hasOutgoing,
                                isSmartContract |-> isContract]
                  /\ IF hasOutgoing
                     THEN hpc' = "firsttx" /\ UNCHANGED response
                     ELSE /\ hpc' = "done"
                          /\ response' = ReportResponse(
                               resolution, chain.balance, FALSE, isContract,
                               undefined)
  /\ UNCHANGED <<scorerVars, address, chain, apiKey, resolution>>

\* getFirstTransactionTimestamp for an address with outgoing transactions,
\* then the days and the report, or the catch block when it threw.
FetchFirstTx ==
  /\ hpc = "firsttx"
  /\ \E o \in EtherscanOutcomes :
       LET t == getFirstTransactionTimestamp(chain, o) IN
       /\ calls' = [calls EXCEPT !.txlist = o]
       /\ response' =
            IF t.threw
            THEN ErrorResponse(statusCode(t.message), t.message)
            ELSE ReportResponse(resolution, locals.balance,
                                locals.hasOutgoingTransactions,
                                locals.isSmartContract, t.value)
  /\ hpc' = "done"
  /\ UNCHANGED <<scorerVars, address, chain, apiKey, resolution, locals>>

HandlerNext == Resolve \/ FetchAll \/ FetchFirstTx

HandlerSpec == HandlerInit /\ [][HandlerNext]_vars

TypeOK ==
  /\ facts \in EthereumAddressData
  /\ pc \in {"idle", "start", "scored", "analysed", "formatted"}
  /\ result.score \in Int
  /\ analysis.securityScore.score \in Int

\* ------------------------------------------------------------ properties
\* Helpers of the properties below.  Each table is written out from the
\* statement it belongs to, not taken from the scorer's operators.

\* The balance penalty as the specification tabulates it.
StatedBalancePenalty(b) ==
  IF BalanceGt(b, 10000) THEN 55
  ELSE IF BalanceGt(b, 1000) THEN 40
  ELSE IF BalanceGt(b, 100) THEN 30
  ELSE IF BalanceGt(b, 10) THEN 20
  ELSE IF BalanceGt(b, 1) THEN 10
  ELSE IF BalanceGt(b, 0) THEN 5
  ELSE 0

\* The balance penalty of the amended C4.
AmendedBalancePenalty(b) ==
  IF BalanceGt(b, 1000) THEN 25
  ELSE IF BalanceGt(b, 100) THEN 20
  ELSE IF BalanceGt(b, 10) THEN 15
  ELSE IF BalanceGt(b, 1) THEN 10
  ELSE IF BalanceGt(b, 0) THEN 5
  ELSE 0

\* The duration penalty of the amended C5 and C6.
AmendedDurationPenalty(d) ==
  IF d = undefined THEN 0
  ELSE IF d > 730 THEN 20
  ELSE IF d > 365 THEN 15
  ELSE IF d > 180 THEN 10
  ELSE IF d > 30 THEN 5
  ELSE 0

ScoreOf(addressData) == calculateQuantumSecurityScore(addressData).score

\* C1 (as claimed): every smart contract scores 100, grade A+, with exactly
\* one recommendation.  The scorer never reads isSmartContract, so this fails.
C1_ContractShortCircuit ==
  (pc = "scored" /\ facts.isSmartContract)
    => /\ result.score = 100
       /\ result.grade = "A+"
       /\ Len(result.recommendations) = 1

\* C2 (as claimed): publicKeyExposed = hasOutgoingTransactions AND NOT
\* isSmartContract.  The analysis copies hasOutgoingTransactions, so this
\* fails for a contract with outgoing transactions.
C2_PublicKeyExposed ==
  pc = "analysed"
    => analysis.analysisDetails.publicKeyExposed
         = (facts.hasOutgoingTransactions /\ ~facts.isSmartContract)

IsC3Facts(f) ==
  /\ f.balanceEth = [whole |-> 50, frac |-> 0]
  /\ f.hasOutgoingTransactions
  /\ f.daysSinceFirstTransaction = 400
  /\ ~f.isSmartContract

\* C3 (as claimed): {balanceEth 50, exposed, 400 days, not a contract} scores
\* 40, grade D, risk level High.
C3_Original ==
  (pc = "scored" /\ IsC3Facts(facts))
    => /\ result.score = 40
       /\ result.grade = "D"
       /\ result.riskLevel = "High"

\* C3 (amended): those facts score 30 (100 - 40 - 15 - 15), grade F, risk
\* level Very High.
C3_EndToEnd ==
  (pc = "scored" /\ IsC3Facts(facts))
    => /\ result.score = 30
       /\ result.grade = "F"
       /\ result.riskLevel = "Very High"

C3_Witness == pc = "scored" /\ IsC3Facts(facts) /\ result.score = 30

\* C4 (as claimed): unexposed non-contract facts score 100 minus the penalty
\* of the bands 55/40/30/20/10/5/0.
C4_Original ==
  (pc = "scored" /\ ~facts.isSmartContract /\ ~facts.hasOutgoingTransactions)
    => result.score = 100 - StatedBalancePenalty(facts.balanceEth)

\* C4 (amended): unexposed non-contract facts score 100 minus the penalty of
\* the first matching band > 1000 -> 25, > 100 -> 20, > 10 -> 15, > 1 -> 10,
\* > 0 -> 5, = 0 -> 0.
C4_BalancePenalty ==
  (pc = "scored" /\ ~facts.isSmartContract /\ ~facts.hasOutgoingTransactions)
    => result.score = 100 - AmendedBalancePenalty(facts.balanceEth)

C4_Witness ==
  /\ pc = "scored"
  /\ ~facts.isSmartContract /\ ~facts.hasOutgoingTransactions
  /\ facts.balanceEth = [whole |-> 1000, frac |-> 1]
  /\ result.score = 75

\* C5 (as claimed): for non-contract facts the exposed score is the unexposed
\* score less exactly 40 (floored at 0), whatever the days; records that
\* differ only in daysSinceFirstTransaction score the same.
C5_Original ==
  (pc = "scored" /\ ~facts.isSmartContract)
    => /\ facts.hasOutgoingTransactions
            => result.score
                 = MathMax(0, ScoreOf([facts EXCEPT
                                 !.hasOutgoingTransactions = FALSE]) - 40)
       /\ \A d \in DayProbes \cup {undefined} :
            ScoreOf([facts EXCEPT !.daysSinceFirstTransaction = d])
              = result.score

\* C5 (amended): for non-contract facts the exposed score is the unexposed
\* score less 40 and less the duration penalty (> 730 days -> 20, > 365 ->
\* 15, > 180 -> 10, > 30 -> 5, otherwise or absent -> 0), floored at 0;
\* records that differ only in daysSinceFirstTransaction score the same when
\* they are unexposed or have the same duration penalty.
C5_ExposureDeduction ==
  (pc = "scored" /\ ~facts.isSmartContract)
    => /\ facts.hasOutgoingTransactions
            => result.score
                 = MathMax(0, ScoreOf([facts EXCEPT
                                 !.hasOutgoingTransactions = FALSE]) - 40
                              - AmendedDurationPenalty(
                                  facts.daysSinceFirstTransaction))
       /\ \A d \in DayProbes \cup {undefined} :
            (\/ ~facts.hasOutgoingTransactions
             \/ AmendedDurationPenalty(d)
                  = AmendedDurationPenalty(facts.daysSinceFirstTransaction))
              => ScoreOf([facts EXCEPT !.daysSinceFirstTransaction = d])
                   = result.score

C5_Witness ==
  /\ pc = "scored"
  /\ ~facts.isSmartContract /\ facts.hasOutgoingTransactions
  /\ facts.daysSinceFirstTransaction = 731
  /\ result.score
       = ScoreOf([facts EXCEPT !.hasOutgoingTransactions = FALSE]) - 60

IsC6Facts(f) ==
  /\ f.balanceEth = [whole |-> 1000000000, frac |-> 0]
  /\ f.hasOutgoingTransactions
  /\ ~f.isSmartContract

\* C6 (as claimed): exposed non-contract facts with balanceEth = 10^9 score 0,
\* grade F.
C6_Original ==
  (pc = "scored" /\ IsC6Facts(facts))
    => /\ result.score = 0
       /\ result.grade = "F"

\* C6 (amended): those facts score 35 less the duration penalty, so between
\* 15 and 35 (35 when the days are absent or at most 30), and grade F.
C6_LargeBalanceExposed ==
  (pc = "scored" /\ IsC6Facts(facts))
    => /\ result.score
            = 35 - AmendedDurationPenalty(facts.daysSinceFirstTransaction)
       /\ result.score \in 15 .. 35
       /\ result.grade = "F"

C6_Witness ==
  /\ pc = "scored" /\ IsC6Facts(facts)
  /\ facts.daysSinceFirstTransaction = undefined
  /\ result.score = 35

\* C7: the score returned for any facts is an integer between 0 and 100.
C7_ScoreInRange == pc = "scored" => result.score \in 0 .. 100

\* The largest deduction the scorer can make has been applied.
C7_Witness ==
  /\ pc = "scored"
  /\ facts.hasOutgoingTransactions
  /\ facts.daysSinceFirstTransaction > 730
  /\ BalanceGt(facts.balanceEth, 1000)
  /\ result.score = 15

\* C8: an empty, unexposed, non-contract address scores 100, grade A+, risk
\* level Very Low.
C8_EmptyUnexposed ==
  (/\ pc = "scored"
   /\ BalanceIsZero(facts.balanceEth)
   /\ ~facts.hasOutgoingTransactions
   /\ ~facts.isSmartContract)
    => /\ result.score = 100
       /\ result.grade = "A+"
       /\ result.riskLevel = "Very Low"

C8_Witness ==
  /\ pc = "scored"
  /\ BalanceIsZero(facts.balanceEth)
  /\ ~facts.hasOutgoingTransactions
  /\ ~facts.isSmartContract
  /\ facts.daysSinceFirstTransaction = 400
  /\ result.score = 100

\* C9: with the other fields equal, a larger balanceEth never scores higher.
C9_MonotoneInBalance ==
  pc = "scored"
    => \A b2 \in Balances :
         BalanceLeq(facts.balanceEth, b2)
           => result.score >= ScoreOf([facts EXCEPT !.balanceEth = b2])

\* The score strictly drops across the breakpoint at 10 ETH.
C9_Witness ==
  /\ pc = "scored"
  /\ facts.balanceEth = [whole |-> 10, frac |-> 0]
  /\ result.score
       > ScoreOf([facts EXCEPT !.balanceEth = [whole |-> 10, frac |-> 1]])

\* C10: with the same balance and isSmartContract, exposed facts (any days)
\* never score higher than unexposed facts (any days).
C10_MonotoneInExposure ==
  (pc = "scored" /\ facts.hasOutgoingTransactions)
    => \A d \in DayProbes \cup {undefined} :
         result.score
           <= ScoreOf([facts EXCEPT !.hasOutgoingTransactions = FALSE,
                                    !.daysSinceFirstTransaction = d])

C10_Witness ==
  /\ pc = "scored"
  /\ facts.hasOutgoingTransactions
  /\ facts.isSmartContract
  /\ result.score
       < ScoreOf([facts EXCEPT !.hasOutgoingTransactions = FALSE])

\* C11: the grade returned is the threshold mapping of the score returned
\* (>= 95 A+, >= 85 A, >= 75 B, >= 65 C, >= 50 D, else F), and is never E.
C11_GradeFromScore ==
  pc = "scored"
    => /\ result.grade
            = (IF result.score >= 95 THEN "A+"
               ELSE IF result.score >= 85 THEN "A"
               ELSE IF result.score >= 75 THEN "B"
               ELSE IF result.score >= 65 THEN "C"
               ELSE IF result.score >= 50 THEN "D"
               ELSE "F")
       /\ result.grade # "E"

\* A score on the A+ threshold itself.
C11_Witness == pc = "scored" /\ result.score = 95 /\ result.grade = "A+"

\* C12: the risk level returned is the threshold mapping of the score
\* returned (>= 90 Very Low, >= 75 Low, >= 60 Medium, >= 40 High, else Very
\* High).
C12_RiskLevelFromScore ==
  pc = "scored"
    => result.riskLevel
         = (IF result.score >= 90 THEN "Very Low"
            ELSE IF result.score >= 75 THEN "Low"
            ELSE IF result.score >= 60 THEN "Medium"
            ELSE IF result.score >= 40 THEN "High"
            ELSE "Very High")

\* A score on the High threshold itself.
C12_Witness == pc = "scored" /\ result.score = 40 /\ result.riskLevel = "High"

\* C14: balanceRiskFactor of the analysis is the first matching band of
\* balanceEth (> 1000 -> 1.0, > 100 -> 0.8, > 10 -> 0.6, > 1 -> 0.4, > 0 ->
\* 0.2, else 0; in tenths here), one of the six values, and the same whatever
\* the exposure, the days and the contract flag.
C14_BalanceRiskFactor ==
  pc = "analysed"
    => LET f == analysis.analysisDetails.balanceRiskFactor
           b == facts.balanceEth
       IN /\ f = (IF BalanceGt(b, 1000) THEN 10
                  ELSE IF BalanceGt(b, 100) THEN 8
                  ELSE IF BalanceGt(b, 10) THEN 6
                  ELSE IF BalanceGt(b, 1) THEN 4
                  ELSE IF BalanceGt(b, 0) THEN 2
                  ELSE 0)
          /\ f \in {0, 2, 4, 6, 8, 10}
          /\ \A h \in BOOLEAN, c \in BOOLEAN, d \in DayProbes \cup {undefined} :
               generateSecurityAnalysis(
                 [facts EXCEPT !.hasOutgoingTransactions = h,
                               !.isSmartContract = c,
                               !.daysSinceFirstTransaction = d]
               ).analysisDetails.balanceRiskFactor = f

\* A balance of exactly 1 ETH, which is in the 0.2 band, not the 0.4 one.
C14_Witness ==
  /\ pc = "analysed"
  /\ facts.balanceEth = [whole |-> 1, frac |-> 0]
  /\ analysis.analysisDetails.balanceRiskFactor = 2

\* C15: exposureDurationRisk of the analysis is given by the highest of 730,
\* 365, 180, 90, 30 that daysSinceFirstTransaction strictly exceeds (1.0,
\* 0.8, 0.6, 0.4, 0.2; in tenths here), 0 when the days are absent, zero or
\* at most 30, and is one of the six values.
C15_ExposureDurationRisk ==
  pc = "analysed"
    => LET r == analysis.analysisDetails.exposureDurationRisk
           d == facts.daysSinceFirstTransaction
       IN /\ r = (IF d = undefined THEN 0
                  ELSE IF d > 730 THEN 10
                  ELSE IF d > 365 THEN 8
                  ELSE IF d > 180 THEN 6
                  ELSE IF d > 90 THEN 4
                  ELSE IF d > 30 THEN 2
                  ELSE 0)
          /\ r \in {0, 2, 4, 6, 8, 10}

\* Exactly 90 days, which is in the 0.2 band, not the 0.4 one.
C15_Witness ==
  /\ pc = "analysed"
  /\ facts.daysSinceFirstTransaction = 90
  /\ analysis.analysisDetails.exposureDurationRisk = 2

\* C13 (as claimed): formatExposureDuration(days) is "less than a day" below
\* 1, "1 day" at 1, "N days" below 30, "M month(s)" below 365 and otherwise
\* "Y year(s)[, M month(s)]", the months clause left out at 0 and the singular
\* word used exactly when the number is 1; so 400 gives "1 year, 1 month".
\* The years branch always writes "months", so this fails at 395..424 days
\* ("1 year, 1 months") and at 760..789 ("2 years, 1 months").
C13_FormatExposureDuration ==
  pc = "formatted"
    => LET days == facts.daysSinceFirstTransaction
           Y == days \div 365
           M == IF days < 365 THEN days \div 30 ELSE (days % 365) \div 30
           Months == <<Part(M, IF M = 1 THEN "month" ELSE "months")>>
       IN formatted
            = (IF days < 1 THEN <<Part(0, "less than a day")>>
               ELSE IF days = 1 THEN <<Part(1, "day")>>
               ELSE IF days < 30 THEN <<Part(days, "days")>>
               ELSE IF days < 365 THEN Months
               ELSE <<Part(Y, IF Y = 1 THEN "year" ELSE "years")>>
                    \o (IF M = 0 THEN <<>> ELSE Months))

\* ------------------------------------------- properties of the handler
\* The outcomes of the Etherscan requests made while handling the request.
MadeCalls == {calls.balance, calls.txcount, calls.code, calls.txlist}
RateLimited == "http429" \in MadeCalls
Unreachable == MadeCalls \cap {"failedToFetch", "fetchError"} # {}

\* The timestamps of the transactions the address itself sent.
OutgoingTimes ==
  {chain.history[i].timeStamp :
     i \in {j \in 1 .. Len(chain.history) : chain.history[j].outgoing}}
IncomingTimes ==
  {chain.history[i].timeStamp :
     i \in {j \in 1 .. Len(chain.history) : ~chain.history[j].outgoing}}

\* C16 (as claimed): the handler returns a Response for every address
\* parameter and every outcome of the ENS and Etherscan calls; it never
\* rejects.  resolveAddressOrENS validates the trimmed input but hands the
\* untrimmed one to reverseResolveAddress, which throws outside the try
\* block, so this fails for a valid address with white space around it.
C16_NeverRejects == hpc # "rejected"

\* C17 (as claimed): when an Etherscan request of the handling was answered
\* 429 or could not be reached, the Response is not a 200 report; it is a 429
\* when requests were rate-limited (and none unreachable) and a 503 when
\* requests were unreachable (and none rate-limited).  isSmartContract and
\* getFirstTransactionTimestamp swallow a 429, so this fails.
C17_NoPartialReport ==
  (hpc = "done" /\ (RateLimited \/ Unreachable))
    => /\ response.status # 200
       /\ (RateLimited /\ ~Unreachable) => response.status = 429
       /\ (Unreachable /\ ~RateLimited) => response.status = 503

C19_FirstOutgoingTimestamp ==
  (/\ hpc = "done"
   /\ response.status = 200
   /\ OutgoingTimes # {}
   /\ IncomingTimes # {}
   /\ response.firstTransactionTimestamp # undefined)
    => /\ response.firstTransactionTimestamp \in OutgoingTimes
       /\ \A t \in OutgoingTimes : response.firstTransactionTimestamp <= t
       /\ \A t \in OutgoingTimes :
            response.daysSinceFirstTransaction >= (Now - t) \div 86400

====
